---- MODULE Spec2Model ----
(***************************************************************************)
(* Model of the Notion MCP server (src/server.py): startup (main), the     *)
(* tool catalog (list_tools), the dispatcher (call_tool) and the Notion    *)
(* client (NotionMCPServer).  Each invocation runs up to its single await  *)
(* of the HTTP client, is suspended there, and is resumed by the outcome   *)
(* of its own request; several invocations may be suspended at once.       *)
(***************************************************************************)
EXTENDS Naturals, Sequences, FiniteSets, Bags, TLC

VARIABLES env, pc, exitStatus, stderr, notion, inflight, last, listed

vars == <<env, pc, exitStatus, stderr, notion, inflight, last, listed>>

(* Number of invocations that may be suspended at their await at once. *)
MaxInFlight == 2

NOTION_VERSION == "2022-06-28"
NOTION_API_BASE == "https://api.notion.com/v1"
Timeout == 30

(***************************************************************************)
(* JSON values as the handlers see them.  A value is a record [k, s, o]:   *)
(* k is the kind, s the text of a string (or the literal of a list), o the *)
(* ordered key/value pairs of an object (Python dicts keep insertion       *)
(* order).                                                                 *)
(***************************************************************************)
Str(s) == [k |-> "str", s |-> s, o |-> <<>>]
Null == [k |-> "null", s |-> "", o |-> <<>>]
Obj(pairs) == [k |-> "obj", s |-> "", o |-> pairs]
List(lit) == [k |-> "list", s |-> lit, o |-> <<>>]

(* Python truth value of a JSON value: "", None, {} and [] are false. *)
Truthy(v) ==
    CASE v.k = "str" -> v.s # ""
      [] v.k = "null" -> FALSE
      [] v.k = "obj" -> v.o # <<>>
      [] v.k = "list" -> v.s # "[]"

(* f"{v}": a str is inserted as it is, None as "None".  The repr of a     *)
(* non-empty object is not spelled out: the ids explored are strings.      *)
Format(v) ==
    CASE v.k = "str" -> v.s
      [] v.k = "null" -> "None"
      [] v.k = "obj" -> IF v.o = <<>> THEN "{}" ELSE "{...}"
      [] v.k = "list" -> v.s

(* Ordered dicts: sequences of <<key, value>>. *)
Keys(d) == {d[i][1] : i \in DOMAIN d}

HasKey(d, key) == key \in Keys(d)

Lookup(d, key) == d[CHOOSE i \in DOMAIN d : d[i][1] = key][2]

(* d[key] = val: replaces the value in place, or appends a new key. *)
SetItem(d, key, val) ==
    IF HasKey(d, key)
    THEN [i \in DOMAIN d |-> IF d[i][1] = key THEN <<key, val>> ELSE d[i]]
    ELSE Append(d, <<key, val>>)

(* d.update(e) for a dict e: e's items are assigned in e's order. *)
RECURSIVE DictUpdate(_, _)
DictUpdate(d, e) ==
    IF e = <<>> THEN d
    ELSE DictUpdate(SetItem(d, e[1][1], e[1][2]), Tail(e))

(***************************************************************************)
(* Exceptions.  str(e) is kept as its sequence of lines, so that the       *)
(* serializer can escape the line breaks.                                  *)
(***************************************************************************)
Exc(type, msg) == [type |-> type, msg |-> msg]
NoExc == Exc("", <<>>)

(* arguments[key] on a dict without key: KeyError, str(e) = repr(key). *)
KeyError(key) == Exc("KeyError", <<"'" \o key \o "'">>)

(* dict.update(v) for a truthy v that is no dict: a str is iterated by     *)
(* character and each character is no key/value pair (ValueError); a list  *)
(* of values that are no pairs is a TypeError.                             *)
UpdateError(v) ==
    IF v.k = "str"
    THEN Exc("ValueError",
             <<"dictionary update sequence element #0 has length 1; 2 is required">>)
    ELSE Exc("TypeError",
             <<"cannot convert dictionary update sequence element #0 to a sequence">>)

(* The classes "except Exception" catches, among those that can be raised  *)
(* here: all of them derive from Exception.                                *)
TimeoutTypes == {"ConnectTimeout", "ReadTimeout"}
TransportTypes == TimeoutTypes \cup {"ConnectError"}
ExceptionTypes ==
    {"KeyError", "ValueError", "TypeError", "HTTPStatusError", "JSONDecodeError"}
        \cup TransportTypes

(***************************************************************************)
(* The Notion client.  __init__ builds the headers once; each method runs  *)
(* to its await of self.client (the request it issues) or raises before.   *)
(***************************************************************************)
NotionMCPServer(token) ==
    [token |-> token,
     headers |-> [Authorization |-> "Bearer " \o token,
                  NotionVersion |-> NOTION_VERSION,
                  ContentType |-> "application/json"],
     timeout |-> Timeout]

NoClient == [token |-> "", headers |-> [Authorization |-> "", NotionVersion |-> "",
                                        ContentType |-> ""], timeout |-> 0]

EmptyBody == [x \in {} |-> Null]

Request(self, method, url, hasJson, json) ==
    [method |-> method, url |-> url, hasJson |-> hasJson, json |-> json,
     headers |-> self.headers, timeout |-> self.timeout]

NoReq == [method |-> "", url |-> "", hasJson |-> FALSE, json |-> EmptyBody,
          headers |-> NoClient.headers, timeout |-> 0]

(* A handler's progress: suspended at the await of a request, or raised. *)
Await(req) == [kind |-> "await", req |-> req, exc |-> NoExc]
Raise(exc) == [kind |-> "raise", req |-> NoReq, exc |-> exc]

(* Mutant: the payload always carries "query", also when it is empty. *)
search_always_query(self, query, filter_type) ==
    LET payload0 == [x \in {"query"} |-> query]
        payload == IF Truthy(filter_type)
                   THEN [x \in DOMAIN payload0 \cup {"filter"} |->
                            IF x = "filter"
                            THEN [property |-> Str("object"), value |-> filter_type]
                            ELSE payload0[x]]
                   ELSE payload0
    IN Await(Request(self, "POST", NOTION_API_BASE \o "/search", TRUE, payload))

search(self, query, filter_type) ==
    LET payload0 == IF Truthy(query) THEN [x \in {"query"} |-> query] ELSE EmptyBody
        payload == IF Truthy(filter_type)
                   THEN [x \in DOMAIN payload0 \cup {"filter"} |->
                            IF x = "filter"
                            THEN [property |-> Str("object"), value |-> filter_type]
                            ELSE payload0[x]]
                   ELSE payload0
    IN Await(Request(self, "POST", NOTION_API_BASE \o "/search", TRUE, payload))

get_page(self, page_id) ==
    Await(Request(self, "GET", NOTION_API_BASE \o "/pages/" \o Format(page_id),
                  FALSE, EmptyBody))

(* The generated title property {"title": [{"text": {"content": title}}]}. *)
TitleProperty(title) == [tag |-> "title", content |-> title]

(* Mutant: the caller's properties replace the generated ones. *)
create_page_replacing(self, parent_id, title, properties) ==
    LET generated == << <<"title", TitleProperty(title)>> >>
    IN IF Truthy(properties) /\ properties.k # "obj"
       THEN Raise(UpdateError(properties))
       ELSE Await(Request(self, "POST", NOTION_API_BASE \o "/pages", TRUE,
                [parent |-> [page_id |-> parent_id],
                 properties |-> IF Truthy(properties) THEN properties.o
                                ELSE generated]))

create_page(self, parent_id, title, properties) ==
    LET generated == << <<"title", TitleProperty(title)>> >>
    IN IF Truthy(properties) /\ properties.k # "obj"
       THEN Raise(UpdateError(properties))
       ELSE Await(Request(self, "POST", NOTION_API_BASE \o "/pages", TRUE,
                [parent |-> [page_id |-> parent_id],
                 properties |-> IF Truthy(properties)
                                THEN DictUpdate(generated, properties.o)
                                ELSE generated]))

update_page(self, page_id, properties) ==
    Await(Request(self, "PATCH", NOTION_API_BASE \o "/pages/" \o Format(page_id),
                  TRUE, [x \in {"properties"} |-> properties]))

query_database(self, database_id, filter_obj, sorts) ==
    LET present == (IF Truthy(filter_obj) THEN {"filter"} ELSE {})
                       \cup (IF Truthy(sorts) THEN {"sorts"} ELSE {})
    IN Await(Request(self, "POST",
                NOTION_API_BASE \o "/databases/" \o Format(database_id) \o "/query",
                TRUE,
                [x \in present |-> IF x = "filter" THEN filter_obj ELSE sorts]))

get_block_children(self, block_id) ==
    Await(Request(self, "GET",
                  NOTION_API_BASE \o "/blocks/" \o Format(block_id) \o "/children",
                  FALSE, EmptyBody))

append_block_children(self, block_id, children) ==
    Await(Request(self, "PATCH",
                  NOTION_API_BASE \o "/blocks/" \o Format(block_id) \o "/children",
                  TRUE, [x \in {"children"} |-> children]))

(***************************************************************************)
(* call_tool, first half: argument extraction and dispatch, up to the      *)
(* await inside the client method.  arguments[key] raises KeyError before  *)
(* the method is entered; arguments.get(key) yields None for a missing key.*)
(***************************************************************************)
Get(arguments, key, default) ==
    IF key \in DOMAIN arguments THEN arguments[key] ELSE default

(* Mutant: arguments["query"] in place of arguments.get("query", ""). *)
SearchBranchStrict(self, arguments) ==
    IF "query" \notin DOMAIN arguments THEN Raise(KeyError("query"))
    ELSE search(self, arguments["query"], Get(arguments, "filter_type", Null))

SearchBranch(self, arguments) ==
    search(self, Get(arguments, "query", Str("")), Get(arguments, "filter_type", Null))

(* Mutant: arguments.get("page_id") in place of arguments["page_id"]. *)
GetPageBranchLenient(self, arguments) ==
    get_page(self, Get(arguments, "page_id", Null))

GetPageBranch(self, arguments) ==
    IF "page_id" \notin DOMAIN arguments THEN Raise(KeyError("page_id"))
    ELSE get_page(self, arguments["page_id"])

CreatePageBranch(self, arguments) ==
    IF "parent_id" \notin DOMAIN arguments THEN Raise(KeyError("parent_id"))
    ELSE IF "title" \notin DOMAIN arguments THEN Raise(KeyError("title"))
    ELSE create_page(self, arguments["parent_id"], arguments["title"],
                     Get(arguments, "properties", Null))

UpdatePageBranch(self, arguments) ==
    IF "page_id" \notin DOMAIN arguments THEN Raise(KeyError("page_id"))
    ELSE IF "properties" \notin DOMAIN arguments THEN Raise(KeyError("properties"))
    ELSE update_page(self, arguments["page_id"], arguments["properties"])

QueryDatabaseBranch(self, arguments) ==
    IF "database_id" \notin DOMAIN arguments THEN Raise(KeyError("database_id"))
    ELSE query_database(self, arguments["database_id"],
                        Get(arguments, "filter", Null), Get(arguments, "sorts", Null))

GetBlockChildrenBranch(self, arguments) ==
    IF "block_id" \notin DOMAIN arguments THEN Raise(KeyError("block_id"))
    ELSE get_block_children(self, arguments["block_id"])

AppendBlocksBranch(self, arguments) ==
    IF "block_id" \notin DOMAIN arguments THEN Raise(KeyError("block_id"))
    ELSE IF "blocks" \notin DOMAIN arguments THEN Raise(KeyError("blocks"))
    ELSE append_block_children(self, arguments["block_id"], arguments["blocks"])

(* Mutant: the else branch raises KeyError(name). *)
UnknownToolKeyError(name) == Raise(KeyError(name))

UnknownTool(name) == Raise(Exc("ValueError", <<"Unknown tool: " \o name>>))

Dispatch(self, name, arguments) ==
    IF name = "search_notion" THEN SearchBranch(self, arguments)
    ELSE IF name = "get_page" THEN GetPageBranch(self, arguments)
    ELSE IF name = "create_page" THEN CreatePageBranch(self, arguments)
    ELSE IF name = "update_page" THEN UpdatePageBranch(self, arguments)
    ELSE IF name = "query_database" THEN QueryDatabaseBranch(self, arguments)
    ELSE IF name = "get_block_children" THEN GetBlockChildrenBranch(self, arguments)
    ELSE IF name = "append_blocks" THEN AppendBlocksBranch(self, arguments)
    ELSE UnknownTool(name)

(***************************************************************************)
(* The outcome of one HTTP request, as the awaiting method sees it: a      *)
(* response (status, reason phrase, body) or a transport error raised by   *)
(* the await.                                                              *)
(***************************************************************************)
Response(status, reason, isJson, body) ==
    [kind |-> "response", status |-> status, reason |-> reason,
     isJson |-> isJson, body |-> body, exc |-> NoExc]

TransportError(type, msg) ==
    [kind |-> "error", status |-> 0, reason |-> "", isJson |-> FALSE,
     body |-> <<>>, exc |-> Exc(type, <<msg>>)]

NoOutcome == [kind |-> "none", status |-> 0, reason |-> "", isJson |-> FALSE,
              body |-> <<>>, exc |-> NoExc]

(* response.raise_for_status(): raises unless the status is 2xx. *)
IsSuccess(status) == status \in 200..299

HTTPStatusError(req, resp) ==
    Exc("HTTPStatusError",
        <<(CASE resp.status \in 100..199 -> "Informational response"
             [] resp.status \in 300..399 -> "Redirect response"
             [] resp.status \in 400..499 -> "Client error"
             [] OTHER -> "Server error")
              \o " '" \o ToString(resp.status) \o " " \o resp.reason
              \o "' for url '" \o req.url \o "'",
          "For more information check: https://developer.mozilla.org/en-US/docs/Web/HTTP/Status/"
              \o ToString(resp.status)>>)

(* The rest of a client method after its await: the decoded body, or the   *)
(* exception raised by the await, raise_for_status() or response.json().   *)
Returned(value) == [kind |-> "return", value |-> value, exc |-> NoExc]
Raised(exc) == [kind |-> "raise", value |-> <<>>, exc |-> exc]

AfterAwait(req, outcome) ==
    IF outcome.kind = "error" THEN Raised(outcome.exc)
    ELSE IF ~IsSuccess(outcome.status) THEN Raised(HTTPStatusError(req, outcome))
    ELSE IF ~outcome.isJson
    THEN Raised(Exc("JSONDecodeError", <<"Expecting value: line 1 column 1 (char 0)">>))
    ELSE Returned(outcome.body)

(***************************************************************************)
(* json.dumps(obj, indent=2) of a flat object whose values are strings,    *)
(* each kept as its lines: a line break inside a string is written \n.     *)
(***************************************************************************)
RECURSIVE JoinLines(_)
JoinLines(lines) ==
    IF lines = <<>> THEN ""
    ELSE IF Len(lines) = 1 THEN lines[1]
    ELSE lines[1] \o "\\n" \o JoinLines(Tail(lines))

DumpsStr(lines) == "\"" \o JoinLines(lines) \o "\""

RECURSIVE DumpsItems(_)
DumpsItems(d) ==
    IF d = <<>> THEN ""
    ELSE "  " \o DumpsStr(<<d[1][1]>>) \o ": " \o DumpsStr(d[1][2])
             \o (IF Len(d) = 1 THEN "\n" ELSE ",\n" \o DumpsItems(Tail(d)))

Dumps(d) == IF d = <<>> THEN "{}" ELSE "{\n" \o DumpsItems(d) \o "}"

TextContent(text) == [type |-> "text", text |-> text]

(***************************************************************************)
(* call_tool, second half: the try block's return and its except clause.   *)
(* "except Exception" catches every class deriving from Exception.         *)
(***************************************************************************)
(* Mutant: "except httpx.HTTPError" in place of "except Exception". *)
CaughtHttpOnly(exc) == exc.type \in {"HTTPStatusError"} \cup TransportTypes

Caught(exc) == exc.type \in ExceptionTypes

(* Mutant: every failure is labelled with the class of the except clause. *)
ErrorObjectFixedType(exc) == << <<"error", exc.msg>>, <<"type", <<"Exception">> >> >>

ErrorObject(exc) == << <<"error", exc.msg>>, <<"type", <<exc.type>> >> >>

Completed(result) == [result |-> result, escaped |-> NoExc]
Escaped(exc) == [result |-> <<>>, escaped |-> exc]

OnException(exc) ==
    IF Caught(exc)
    THEN Completed(<<TextContent(Dumps(ErrorObject(exc)))>>)
    ELSE Escaped(exc)

OnResult(value) == Completed(<<TextContent(Dumps(value))>>)

(***************************************************************************)
(* list_tools: the catalog, one descriptor per tool, in declaration order. *)
(***************************************************************************)
Tool(name, properties, required) ==
    [name |-> name, properties |-> properties, required |-> required]

(* Mutant: the first descriptor is published under the name "search". *)
list_tools_renamed ==
    << Tool("search", <<"query", "filter_type">>, <<>>),
       Tool("get_page", <<"page_id">>, <<"page_id">>),
       Tool("create_page", <<"parent_id", "title", "properties">>,
            <<"parent_id", "title">>),
       Tool("update_page", <<"page_id", "properties">>, <<"page_id", "properties">>),
       Tool("query_database", <<"database_id", "filter", "sorts">>, <<"database_id">>),
       Tool("get_block_children", <<"block_id">>, <<"block_id">>),
       Tool("append_blocks", <<"block_id", "blocks">>, <<"block_id", "blocks">>) >>

list_tools ==
    << Tool("search_notion", <<"query", "filter_type">>, <<>>),
       Tool("get_page", <<"page_id">>, <<"page_id">>),
       Tool("create_page", <<"parent_id", "title", "properties">>,
            <<"parent_id", "title">>),
       Tool("update_page", <<"page_id", "properties">>, <<"page_id", "properties">>),
       Tool("query_database", <<"database_id", "filter", "sorts">>, <<"database_id">>),
       Tool("get_block_children", <<"block_id">>, <<"block_id">>),
       Tool("append_blocks", <<"block_id", "blocks">>, <<"block_id", "blocks">>) >>

(***************************************************************************)
(* The inputs explored: the value of NOTION_TOKEN, the names and argument  *)
(* mappings of invocations, and the outcomes of HTTP requests.             *)
(***************************************************************************)
Unset == "<unset>"
Environments == {Unset, "", "secret_abc"}

Names ==
    {"search_notion", "get_page", "create_page", "update_page", "query_database",
     "get_block_children", "append_blocks", "search", "not_a_real_tool"}

StatusProperty == <<"Status", [tag |-> "json", content |-> Str("Done")]>>
TitleOverride == <<"title", [tag |-> "json", content |-> Str("Mine")]>>

ArgKeys(name) ==
    CASE name \in {"search_notion", "search"} -> {"query", "filter_type"}
      [] name = "get_page" -> {"page_id"}
      [] name = "create_page" -> {"parent_id", "title", "properties"}
      [] name = "update_page" -> {"page_id", "properties"}
      [] name = "query_database" -> {"database_id", "filter", "sorts"}
      [] name = "get_block_children" -> {"block_id"}
      [] name = "append_blocks" -> {"block_id", "blocks"}
      [] OTHER -> {}

ArgValues(name, key) ==
    CASE key = "query" -> {Str(""), Str("x")}
      [] key = "filter_type" -> {Str("page")}
      [] key = "page_id" -> {Str("P")}
      [] key = "parent_id" -> {Str("P")}
      [] key = "title" -> {Str("T")}
      [] key = "properties" ->
            IF name = "create_page"
            THEN {Obj(<<>>), Obj(<<StatusProperty>>), Obj(<<TitleOverride>>),
                  Str("abc")}
            ELSE {Obj(<<StatusProperty>>)}
      [] key = "database_id" -> {Str("D")}
      [] key = "filter" -> {Obj(<<StatusProperty>>)}
      [] key = "sorts" -> {List("[s]")}
      [] key = "block_id" -> {Str("B")}
      [] key = "blocks" -> {List("[b]")}

AllValues == UNION {UNION {ArgValues(n, k) : k \in ArgKeys(n)} : n \in Names}

ArgumentMappings(name) ==
    UNION {{f \in [K -> AllValues] : \A k \in K : f[k] \in ArgValues(name, k)} :
           K \in SUBSET ArgKeys(name)}

Invocations == UNION {{<<n, a>> : a \in ArgumentMappings(n)} : n \in Names}

PageBody == << <<"object", <<"page">> >>, <<"id", <<"P">> >> >>

Outcomes ==
    {Response(200, "OK", TRUE, PageBody),
     Response(200, "OK", FALSE, <<>>),
     Response(404, "Not Found", FALSE, <<>>),
     TransportError("ReadTimeout", "The read operation timed out"),
     TransportError("ConnectTimeout", "timed out"),
     TransportError("ConnectError", "All connection attempts failed")}

(***************************************************************************)
(* State.  inflight is the bag of the frames of the invocations suspended  *)
(* at their await (two invocations with the same name, arguments and       *)
(* request are two copies of one frame); last is the invocation that returned in the step just taken,     *)
(* with what it returned (NoCall when the step returned from none); listed *)
(* is the catalog list_tools returned most recently.                       *)
(***************************************************************************)
Suspended(name, arguments, req) ==
    [name |-> name, arguments |-> arguments, req |-> req]

NoCall ==
    [kind |-> "none", name |-> "", arguments |-> EmptyBody, nreq |-> 0,
     req |-> NoReq, outcome |-> NoOutcome, result |-> <<>>, escaped |-> NoExc]

Init ==
    /\ env \in Environments
    /\ pc = "start"
    /\ exitStatus = 0
    /\ stderr = <<>>
    /\ notion = NoClient
    /\ inflight = EmptyBag
    /\ last = NoCall
    /\ listed = <<>>

(* os.getenv returns None for an unset variable; "not token" is true of    *)
(* None and of the empty string.                                           *)
(* Mutant: "if token is None" in place of "if not token". *)
TokenIsNone(token) == token = Unset

TokenMissing(token) == token = Unset \/ token = ""

main ==
    /\ pc = "start"
    /\ IF TokenMissing(env)
       THEN /\ stderr' = Append(stderr, "Error: NOTION_TOKEN environment variable not set")
            /\ exitStatus' = 1
            /\ pc' = "exited"
            /\ UNCHANGED notion
       ELSE /\ notion' = NotionMCPServer(env)
            /\ pc' = "serving"
            /\ UNCHANGED <<stderr, exitStatus>>
    /\ last' = NoCall
    /\ UNCHANGED <<env, inflight, listed>>

ListTools ==
    /\ pc = "serving"
    /\ listed' = list_tools
    /\ last' = NoCall
    /\ UNCHANGED <<env, pc, exitStatus, stderr, notion, inflight>>

(* The coroutine the event loop resumes with the outcome of a request: the *)
(* one suspended at the await of that request.                             *)
(* Mutant: the outcome of a request resumes another suspended invocation,  *)
(* as when the awaited response is kept in a field the invocations share.  *)
ResumedOther(frame) ==
    IF \E g \in BagToSet(inflight) : g # frame
    THEN CHOOSE g \in BagToSet(inflight) : g # frame
    ELSE frame

Resumed(frame) == frame

Finished(name, arguments, nreq, req, outcome, completion) ==
    [kind |-> "call", name |-> name, arguments |-> arguments, nreq |-> nreq,
     req |-> req, outcome |-> outcome, result |-> completion.result,
     escaped |-> completion.escaped]

(* call_tool from its entry to its await, or to its return when it raises  *)
(* before issuing a request.                                               *)
CallTool(name, arguments) ==
    /\ pc = "serving"
    /\ BagCardinality(inflight) < MaxInFlight
    /\ LET step == Dispatch(notion, name, arguments)
       IN IF step.kind = "await"
          THEN /\ inflight' = inflight (+) SetToBag({Suspended(name, arguments, step.req)})
               /\ last' = NoCall
          ELSE /\ last' = Finished(name, arguments, 0, NoReq, NoOutcome,
                                   OnException(step.exc))
               /\ UNCHANGED inflight
    /\ UNCHANGED <<env, pc, exitStatus, stderr, notion, listed>>

(* The request of a suspended invocation ends with outcome; call_tool      *)
(* resumes after the await and runs to its return.                         *)
HttpOutcome(frame, outcome) ==
    /\ pc = "serving"
    /\ BagIn(frame, inflight)
    /\ LET resumed == Resumed(frame)
           after == AfterAwait(frame.req, outcome)
       IN /\ last' = Finished(resumed.name, resumed.arguments, 1, frame.req, outcome,
                              IF after.kind = "return" THEN OnResult(after.value)
                              ELSE OnException(after.exc))
          /\ inflight' = inflight (-) SetToBag({resumed})
    /\ UNCHANGED <<env, pc, exitStatus, stderr, notion, listed>>

Next ==
    \/ main
    \/ ListTools
    \/ \E inv \in Invocations : CallTool(inv[1], inv[2])
    \/ \E frame \in BagToSet(inflight), outcome \in Outcomes : HttpOutcome(frame, outcome)

Spec == Init /\ [][Next]_vars

(***************************************************************************)
(* Properties.                                                             *)
(***************************************************************************)
CatalogNames == {list_tools[i].name : i \in DOMAIN list_tools}

Descriptor(name) == list_tools[CHOOSE i \in DOMAIN list_tools : list_tools[i].name = name]

RequiredKeys(name) ==
    {Descriptor(name).required[j] : j \in DOMAIN Descriptor(name).required}

(* The one text item holding the pretty-printed object {error, type}. *)
ErrorItem(message, type) ==
    <<[type |-> "text",
       text |-> "{\n  \"error\": \"" \o message \o "\",\n  \"type\": \"" \o type
                    \o "\"\n}"]>>

Frames == BagToSet(inflight)

FailureMessages ==
    {KeyError(k).msg : k \in ArgKeys(last.name)}
        \cup {<<"Unknown tool: " \o last.name>>,
              <<"dictionary update sequence element #0 has length 1; 2 is required">>,
              <<"Expecting value: line 1 column 1 (char 0)">>,
              last.outcome.exc.msg,
              HTTPStatusError(last.req, last.outcome).msg}

(* C1: every invocation returns normally, with a list of exactly one text  *)
(* item that is the pretty-printed success body or the pretty-printed      *)
(* object {error, type}; no exception escapes call_tool.                   *)
C1_ReturnsOneTextItem ==
    last.kind = "call" =>
        /\ last.escaped = NoExc
        /\ Len(last.result) = 1
        /\ last.result[1].type = "text"
        /\ \/ /\ last.outcome.kind = "response"
              /\ IsSuccess(last.outcome.status)
              /\ last.outcome.isJson
              /\ last.result[1].text = Dumps(last.outcome.body)
           \/ \E t \in ExceptionTypes, m \in FailureMessages :
                 last.result = ErrorItem(JoinLines(m), t)

C1_Witness ==
    /\ last.kind = "call"
    /\ last.name = "get_page"
    /\ last.outcome.exc.type = "ReadTimeout"
    /\ last.result = ErrorItem("The read operation timed out", "ReadTimeout")

(* C2: an invocation whose name is not in the catalog returns the failure  *)
(* {error: "Unknown tool: <name>", type: "ValueError"}, and issues no HTTP *)
(* request: it is never suspended at a client call.                        *)
C2_UnknownTool ==
    /\ \A f \in Frames : f.name \in CatalogNames
    /\ (last.kind = "call" /\ last.name \notin CatalogNames) =>
          /\ last.result = ErrorItem("Unknown tool: " \o last.name, "ValueError")
          /\ last.nreq = 0
          /\ last.req = NoReq

C2_Witness ==
    /\ last.kind = "call"
    /\ last.name = "not_a_real_tool"
    /\ last.result = ErrorItem("Unknown tool: not_a_real_tool", "ValueError")

(* C3: an invocation of a tool with required arguments whose mapping lacks *)
(* one of them returns a KeyError failure naming a missing key, and issues *)
(* no HTTP request.                                                        *)
LacksRequired(name, arguments) ==
    name \in CatalogNames /\ RequiredKeys(name) \ DOMAIN arguments # {}

C3_MissingRequired ==
    /\ \A f \in Frames : ~LacksRequired(f.name, f.arguments)
    /\ (last.kind = "call" /\ LacksRequired(last.name, last.arguments)) =>
          /\ \E k \in RequiredKeys(last.name) \ DOMAIN last.arguments :
                last.result = ErrorItem("'" \o k \o "'", "KeyError")
          /\ last.nreq = 0
          /\ last.req = NoReq

C3_Witness ==
    /\ last.kind = "call"
    /\ last.name = "create_page"
    /\ DOMAIN last.arguments = {"parent_id", "properties"}
    /\ last.result = ErrorItem("'title'", "KeyError")

(* The requests issued so far by invocations that have not returned, and   *)
(* the request of the invocation that has just returned.                   *)
IssuedBy(name) ==
    {f \in Frames : f.name = name}
        \cup (IF last.kind = "call" /\ last.name = name /\ last.nreq = 1
              THEN {Suspended(last.name, last.arguments, last.req)} ELSE {})

RequestFailed(outcome) ==
    outcome.kind = "error" \/ (outcome.kind = "response" /\ ~IsSuccess(outcome.status))

FailureReported ==
    RequestFailed(last.outcome) =>
        /\ last.nreq = 1
        /\ last.result =
              IF last.outcome.kind = "error"
              THEN ErrorItem(JoinLines(last.outcome.exc.msg), last.outcome.exc.type)
              ELSE ErrorItem(JoinLines(HTTPStatusError(last.req, last.outcome).msg),
                             "HTTPStatusError")

(* C4 as stated: at most one request per invocation, exactly one whenever  *)
(* the name is known and the required arguments are present, and a failed  *)
(* request is reported by the same invocation without being re-issued.     *)
C4_OneRequestIfRequiredPresent ==
    last.kind = "call" =>
        /\ last.nreq <= 1
        /\ (last.name \in CatalogNames /\ ~LacksRequired(last.name, last.arguments))
              => last.nreq = 1
        /\ FailureReported

(* create_page merges a truthy properties value with dict.update, which    *)
(* raises for a value that is no mapping.                                  *)
PropertiesMergeable(name, arguments) ==
    name = "create_page" =>
        LET p == Get(arguments, "properties", Null) IN ~Truthy(p) \/ p.k = "obj"

(* C4 amended: at most one request per invocation; exactly one when the    *)
(* name is known, the required arguments are present and, for create_page, *)
(* properties is absent, falsy or a mapping; a failed request is reported  *)
(* by the same invocation and never re-issued.                             *)
C4_OneRequest ==
    last.kind = "call" =>
        /\ last.nreq <= 1
        /\ (/\ last.name \in CatalogNames
            /\ ~LacksRequired(last.name, last.arguments)
            /\ PropertiesMergeable(last.name, last.arguments))
              => last.nreq = 1
        /\ FailureReported

C4_Witness ==
    /\ last.kind = "call"
    /\ last.name = "update_page"
    /\ last.outcome.kind = "response"
    /\ last.outcome.status = 404
    /\ last.nreq = 1

(* C5: with NOTION_TOKEN unset or empty, main exits with a non-zero status *)
(* after writing a diagnostic to stderr, and no client is created, no      *)
(* catalog is published and no invocation is handled; these happen only    *)
(* when the token is non-empty.                                            *)
C5_TokenRequired ==
    /\ (env = Unset \/ env = "") =>
          /\ pc \in {"start", "exited"}
          /\ notion = NoClient
          /\ listed = <<>>
          /\ inflight = EmptyBag
          /\ last = NoCall
          /\ pc = "exited" => (exitStatus # 0 /\ Len(stderr) = 1)
    /\ (env # Unset /\ env # "") => (pc # "exited" /\ exitStatus = 0 /\ stderr = <<>>)
    /\ pc = "serving" => notion = NotionMCPServer(env)

C5_Witness ==
    /\ env = ""
    /\ pc = "exited"
    /\ exitStatus = 1
    /\ stderr = <<"Error: NOTION_TOKEN environment variable not set">>

SearchUrl == NOTION_API_BASE \o "/search"

FilterClause(value) == [property |-> Str("object"), value |-> value]

(* C6 as stated: an invocation named "search" issues a search request.     *)
C6_SearchByNameSearch ==
    (last.kind = "call" /\ last.name = "search") =>
        /\ last.nreq = 1
        /\ last.req.method = "POST"
        /\ last.req.url = SearchUrl

(* C6 amended: the tool is named "search_notion".  Every invocation of it  *)
(* issues POST /search; the body has "query" exactly when the query given  *)
(* is a non-empty string and the filter clause exactly when a filter is    *)
(* given: {} for no arguments, and {query: "x", filter: {property:         *)
(* "object", value: "page"}} for {query: "x", filter_type: "page"}.        *)
C6_SearchPayload ==
    /\ (last.kind = "call" /\ last.name = "search_notion") => last.nreq = 1
    /\ \A f \in IssuedBy("search_notion") :
          LET query == Get(f.arguments, "query", Str(""))
              given == "filter_type" \in DOMAIN f.arguments
          IN /\ f.req.method = "POST"
             /\ f.req.url = SearchUrl
             /\ f.req.hasJson
             /\ "query" \in DOMAIN f.req.json <=> (query.k = "str" /\ query.s # "")
             /\ "query" \in DOMAIN f.req.json => f.req.json["query"] = query
             /\ "filter" \in DOMAIN f.req.json
                   <=> (given /\ f.arguments["filter_type"] \notin {Str(""), Null})
             /\ given => f.req.json["filter"] = FilterClause(f.arguments["filter_type"])
             /\ DOMAIN f.req.json \subseteq {"query", "filter"}
             /\ DOMAIN f.arguments = {} => f.req.json = EmptyBody
             /\ f.arguments = [query |-> Str("x"), filter_type |-> Str("page")]
                   => f.req.json = [query |-> Str("x"),
                                    filter |-> FilterClause(Str("page"))]

C6_Witness ==
    \E f \in Frames :
        /\ f.name = "search_notion"
        /\ f.arguments = [query |-> Str("x"), filter_type |-> Str("page")]
        /\ f.req.json = [query |-> Str("x"), filter |-> FilterClause(Str("page"))]

(* C7: a create_page request has parent.page_id = parent_id and properties *)
(* holding every entry of the extra properties given; the generated title  *)
(* property is there unless the extra properties have a "title" key, whose *)
(* value then replaces it.                                                 *)
C7_CreatePagePayload ==
    \A f \in IssuedBy("create_page") :
        LET extra == Get(f.arguments, "properties", Obj(<<>>))
            properties == f.req.json["properties"]
        IN /\ f.req.method = "POST"
           /\ f.req.url = NOTION_API_BASE \o "/pages"
           /\ f.req.json["parent"] = [page_id |-> f.arguments["parent_id"]]
           /\ \A i \in DOMAIN extra.o :
                 /\ HasKey(properties, extra.o[i][1])
                 /\ Lookup(properties, extra.o[i][1]) = extra.o[i][2]
           /\ ~HasKey(extra.o, "title") =>
                 /\ HasKey(properties, "title")
                 /\ Lookup(properties, "title")
                       = [tag |-> "title", content |-> f.arguments["title"]]
           /\ Keys(properties) = Keys(extra.o) \cup {"title"}
           /\ Len(properties) = Cardinality(Keys(properties))

C7_Witness ==
    \E f \in Frames :
        /\ f.name = "create_page"
        /\ "properties" \in DOMAIN f.arguments
        /\ f.arguments["properties"] = Obj(<<StatusProperty>>)
        /\ f.req.json["properties"]
              = << <<"title", [tag |-> "title", content |-> Str("T")]>>, StatusProperty >>

(* call_tool run from entry to return with nothing else in progress, its   *)
(* request (if it issues one) ending with the given outcome.               *)
RunAlone(name, arguments, outcome) ==
    LET step == Dispatch(notion, name, arguments)
        after == AfterAwait(step.req, outcome)
    IN IF step.kind = "raise" THEN OnException(step.exc)
       ELSE IF after.kind = "return" THEN OnResult(after.value)
       ELSE OnException(after.exc)

OwnRequestAndResult ==
    /\ \A f \in Frames : Dispatch(notion, f.name, f.arguments) = Await(f.req)
    /\ last.kind = "call" =>
          /\ [result |-> last.result, escaped |-> last.escaped]
                = RunAlone(last.name, last.arguments, last.outcome)
          /\ last.nreq = 1 =>
                Dispatch(notion, last.name, last.arguments) = Await(last.req)

(* A step touches the frame of one invocation at most (the one that is     *)
(* suspended or returns in it) and leaves the client as main created it.   *)
OthersUntouched ==
    pc = "serving" =>
        /\ notion' = notion
        /\ env' = env
        /\ listed # <<>> => listed' = listed
        /\ \/ inflight' = inflight
           \/ \E f \in BagToSet(inflight') :
                 /\ inflight' = inflight (+) SetToBag({f})
                 /\ last' = NoCall
           \/ \E f \in BagToSet(inflight) :
                 /\ inflight' = inflight (-) SetToBag({f})
                 /\ last'.kind = "call"
                 /\ last'.name = f.name
                 /\ last'.arguments = f.arguments
                 /\ last'.req = f.req

(* C8: with invocations interleaved at their awaits, each returns what it  *)
(* would return run alone with the outcome of its own request; the request *)
(* and arguments of a suspended invocation are not changed by the others,  *)
(* and the client (token, headers, timeout) and the catalog are not        *)
(* modified after startup.                                                 *)
C8_Isolation == []OwnRequestAndResult /\ [][OthersUntouched]_vars

C8_Witness ==
    /\ last.kind = "call"
    /\ last.name = "get_page"
    /\ last.outcome.status = 404
    /\ \E f \in Frames : f.name = "create_page"
    /\ [result |-> last.result, escaped |-> last.escaped]
          = RunAlone("get_page", [page_id |-> Str("P")], last.outcome)

StatusErrorLabel == "HTTPStatusError"

(* C9: a request that times out and a request answered with a non-2xx      *)
(* status both end in an {error, type} result, with different type labels: *)
(* the timeout's exception class for the first, HTTPStatusError for the    *)
(* second; the server keeps serving.                                       *)
C9_TimeoutDistinctFromStatus ==
    /\ StatusErrorLabel \notin TimeoutTypes
    /\ last.kind = "call" =>
          /\ (last.outcome.kind = "error" /\ last.outcome.exc.type \in TimeoutTypes) =>
                /\ \E t \in TimeoutTypes :
                      last.result = ErrorItem(JoinLines(last.outcome.exc.msg), t)
                /\ last.escaped = NoExc
                /\ pc = "serving"
          /\ (last.outcome.kind = "response" /\ ~IsSuccess(last.outcome.status)) =>
                /\ last.result =
                      ErrorItem(JoinLines(HTTPStatusError(last.req, last.outcome).msg),
                                StatusErrorLabel)
                /\ last.escaped = NoExc
                /\ pc = "serving"

C9_Witness ==
    /\ last.kind = "call"
    /\ last.name = "query_database"
    /\ last.outcome.exc.type = "ConnectTimeout"
    /\ last.result = ErrorItem("timed out", "ConnectTimeout")

(* The names call_tool has a branch for. *)
Supported(name) == Dispatch(notion, name, EmptyBody) # UnknownTool(name)

ListedOnce ==
    listed # <<>> =>
        \A n \in Names :
            Supported(n) => Cardinality({i \in DOMAIN listed : listed[i].name = n}) = 1

(* C10: the catalog list_tools returns has exactly one descriptor for each *)
(* name call_tool dispatches, and every call returns the same descriptors  *)
(* in the same order, whatever invocations came between.                   *)
C10_Catalog == []ListedOnce /\ [][listed # <<>> => listed' = listed]_vars

C10_Witness ==
    /\ listed # <<>>
    /\ Len(listed) = 7
    /\ last.kind = "call"
    /\ last.name = "append_blocks"
    /\ last.nreq = 1

====
